---- MODULE Spec2Model ----
(***************************************************************************)
(* Supa Shots: the batch generation orchestrator of App.tsx                *)
(* (handleGenerate / handleEditShot / saveToHistory and the handlers that  *)
(* replace the batch), the retry loop of geminiService.generateShot and    *)
(* the IndexedDB project store of historyService.                          *)
(*                                                                         *)
(* The React component is modelled as a state machine over its useState    *)
(* cells.  Every asynchronous handler invocation is a closure record: the  *)
(* values of the render it was created in, plus its position.  A step is   *)
(* one run of JavaScript between two suspension points (a backend reply,   *)
(* a timer, a user event); state updaters are applied in the step that     *)
(* queues them.  UI-only cells (selection, modal, warning banner) are left *)
(* out.                                                                    *)
(***************************************************************************)
EXTENDS Integers, Sequences, FiniteSets, TLC

VARIABLES
    sourceImage,        \* useState: base64 of the source image, or NoImage (null)
    isGenerating,       \* useState
    isDetecting,        \* useState
    product,            \* useState productName / productDescription / productCategory
    subjectType,        \* useState
    aspectRatio,        \* useState
    generatedShots,     \* useState: Record<style, GeneratedImage>
    currentProjectId,   \* useState: project id, or NoProject (null)
    runs,               \* handleGenerate invocations (closure + position)
    edits,              \* handleEditShot invocations (closure + position)
    analyses,           \* handleImageSelect invocations awaiting analyzeProduct
    projects,           \* the IndexedDB object store 'projects'
    now,                \* Date.now()
    catalogLen,         \* number of styles of each catalog that is exercised
    script,             \* the backend's behaviour when it is scripted (SpecBatch)
    clicks,             \* user actions taken so far
    lastPut             \* history: per project id, the snapshot of its last successful put

vars == <<sourceImage, isGenerating, isDetecting, product, subjectType, aspectRatio,
          generatedShots, currentProjectId, runs, edits, analyses, projects, now,
          catalogLen, script, clicks, lastPut>>

appState == <<sourceImage, isGenerating, isDetecting, product, subjectType, aspectRatio,
              generatedShots, currentProjectId>>

environment == <<catalogLen, script>>

-----------------------------------------------------------------------------
(* Bounds of the exploration *)

NumStyles == 2          \* catalog prefix exercised under Spec
MaxUserActions == 4     \* user actions (clicks) in one behaviour of Spec
MaxBatchActions == 4    \* user actions (clicks) in one behaviour of SpecBatch
MaxMixActions == 4      \* user actions (clicks) in one behaviour of SpecMix
MaxRatioActions == 4    \* user actions (clicks) in one behaviour of SpecRatio
MaxSessionActions == 6  \* user actions (clicks) in one behaviour of SpecSession

-----------------------------------------------------------------------------
(* Program constants *)

\* faulty variant: one retry more than the loop allows
OneMoreRetry == 3 + 1

\* faulty variant: two tasks to a chunk
TwoAtATime == 1 + 1

MAX_RETRIES == 3
CONCURRENCY == 1

\* faulty variant: a shorter pause between chunks
HalfPause == 1000 \div 2

\* setTimeout(resolve, 1000) between two chunks
InterRoundPause == 1000
CatalogSize == 9

PRODUCT_STYLES ==
    <<"HERO", "MACRO", "LIQUID", "SCULPTURAL", "FLOATING",
      "SENSORY", "COLOR", "INGREDIENT", "SURREAL">>

HUMAN_STYLES ==
    <<"MCU", "MS", "OS", "WS", "HA", "LA", "P", "ThreeQ", "B">>

ASPECT_RATIOS == <<"1:1", "2:3", "3:2", "3:4", "4:3", "9:16", "16:9", "21:9">>

SubjectTypes == {"PRODUCT", "HUMAN", "MIXED"}

Range(s) == {s[i] : i \in DOMAIN s}

Min(a, b) == IF a <= b THEN a ELSE b

\* const activeStyles = subjectType === HUMAN ? HUMAN_STYLES : PRODUCT_STYLES
activeStyles(st) ==
    SubSeq(IF st = "HUMAN" THEN HUMAN_STYLES ELSE PRODUCT_STYLES, 1, catalogLen)

-----------------------------------------------------------------------------
(* Values *)

NoImage == "null"
NoProject == 0
Undefined == "undefined"
\* the files the user selects, in the order of selection
ImageFiles == <<"imgA", "imgB", "imgC", "imgD", "imgE", "imgF", "imgG", "imgH">>
\* the text typed into the modal's edit box
EditPrompts == {"make it brighter"}
\* the aspect-ratio buttons pressed: one the backend supports, one it does not
RatioButtons == {"16:9", "2:3"}

DefaultProduct ==
    [productName |-> "product", productDescription |-> "", productCategory |-> ""]

\* analyzeProduct's fallback descriptor
FallbackProduct ==
    [productName |-> "Subject",
     productDescription |-> "A detailed shot of the subject.",
     productCategory |-> "general"]

\* what analyzeProduct reads off a parsed reply for image img: the subject it shows
AnalysisOf(img) ==
    [productName |-> img, productDescription |-> img, productCategory |-> img]

\* imageUrl values: '' , undefined, or the data URL a backend call returned
EmptyUrl == [by |-> "", n |-> 0]
UndefUrl == [by |-> Undefined, n |-> 0]
GenUrl(r) == [by |-> "generateShot", n |-> r]
EditUrl(e) == [by |-> "editShot", n |-> e]

NoId == [shotType |-> Undefined, at |-> 0]

\* the spread of an absent entry ({...undefined}): every field undefined
UndefShot ==
    [id |-> NoId, shotType |-> Undefined, imageUrl |-> UndefUrl, isLoading |-> FALSE,
     timestamp |-> 0, subjectType |-> Undefined, error |-> Undefined,
     customPrompt |-> Undefined]

EmptyShots == [s \in {} |-> UndefShot]

\* prev[type]
Entry(shots, type) == IF type \in DOMAIN shots THEN shots[type] ELSE UndefShot

\* { ...prev, [type]: shot }
WithShot(shots, type, shot) ==
    [s \in (DOMAIN shots) \cup {type} |-> IF s = type THEN shot ELSE shots[s]]

\* !!shot.imageUrl
HasImage(shot) == shot.imageUrl.by \notin {"", Undefined}

-----------------------------------------------------------------------------
(* The Generation Backend's replies *)

Includes(message, token) == \E i \in DOMAIN message : message[i] = token

NoImageError ==
    [status |-> 0, code |-> 0,
     message |-> <<"No", "image", "data", "found", "in", "response">>]

ExhaustedError ==
    [status |-> 0, code |-> 0,
     message |-> <<"Failed", "to", "generate", "shot", "after", "3", "retries">>]

NoError == [status |-> 0, code |-> 0, message |-> <<>>]

BackendErrors ==
    { [status |-> 429, code |-> 0, message |-> <<"Too", "Many", "Requests">>],
      [status |-> 0, code |-> 429, message |-> <<"quota">>],
      [status |-> 0, code |-> 0, message |-> <<"got", "status:", "429">>],
      [status |-> 0, code |-> 0, message |-> <<"RESOURCE_EXHAUSTED">>],
      [status |-> 500, code |-> 500, message |-> <<"Internal", "error">>] }

Replies ==
    {[kind |-> "image", error |-> NoError], [kind |-> "noImage", error |-> NoError]}
    \cup {[kind |-> "error", error |-> e] : e \in BackendErrors}

\* faulty variant: every error is taken for a rate limit
AnyError(error) == TRUE

isRateLimit(error) ==
    \/ error.status = 429
    \/ error.code = 429
    \/ Includes(error.message, "429")
    \/ Includes(error.message, "RESOURCE_EXHAUSTED")

\* the aspect ratios Gemini 2.5 Flash Image supports
GeminiRatios == {"1:1", "3:4", "4:3", "9:16", "16:9"}

\* faulty variant: the selected ratio is sent as it is
PassThrough(ratio) == ratio

mapToGeminiAspectRatio(ratio) ==
    CASE ratio = "2:3" -> "3:4"
      [] ratio = "3:2" -> "4:3"
      [] ratio = "21:9" -> "16:9"
      [] OTHER -> ratio

RECURSIVE Pow2(_)
Pow2(n) == IF n = 0 THEN 1 ELSE 2 * Pow2(n - 1)

\* faulty variant: a delay that grows linearly
LinearDelay(attempt) == (attempt + 1) * 2000

\* const delay = Math.pow(2, attempt + 1) * 1000
BackoffDelay(attempt) == Pow2(attempt + 1) * 1000

\* faulty variant: no error is retried
NeverRetry(error, attempt) == FALSE

\* if (isRateLimit && attempt < MAX_RETRIES)
ShouldRetry(error, attempt) == isRateLimit(error) /\ attempt < MAX_RETRIES

\* faulty variant: a reply without image data is raised as a quota error
NoImageAsQuota(reply) ==
    IF reply.kind = "noImage"
    THEN [status |-> 0, code |-> 0, message |-> <<"RESOURCE_EXHAUSTED">>]
    ELSE reply.error

\* the error a reply raises inside generateShot's try block
Raised(reply) == IF reply.kind = "noImage" THEN NoImageError ELSE reply.error

-----------------------------------------------------------------------------
(* The Persistence Store *)

\* faulty variant: a put that adds a record without replacing the one of the same key
StoreAdd(store, project) == store \cup {project}

\* db.put on an object store with keyPath 'id'
StorePut(store, project) == {p \in store : p.id # project.id} \cup {project}

\* faulty variant: a failed put that leaves the store empty
FailedPutClears(store, project, putOk) ==
    IF putOk THEN StorePut(store, project) ELSE {}

\* saveProject: a failed put is logged and swallowed
saveProject(store, project, putOk) ==
    IF putOk THEN StorePut(store, project) ELSE store

\* db.delete
StoreDelete(store, id) == {p \in store : p.id # id}

\* the record the index 'by-date' lists first: the least timestamp, then the least key
Oldest(store) ==
    CHOOSE p \in store :
        \A q \in store :
            p.timestamp < q.timestamp \/ (p.timestamp = q.timestamp /\ p.id <= q.id)

\* db.getAllFromIndex(STORE_NAME, 'by-date'): ascending by timestamp
RECURSIVE getAllFromIndex(_)
getAllFromIndex(store) ==
    IF store = {} THEN <<>>
    ELSE <<Oldest(store)>> \o getAllFromIndex(store \ {Oldest(store)})

\* Array.prototype.reverse
Reverse(list) == [i \in 1..Len(list) |-> list[Len(list) + 1 - i]]

\* faulty variant: the list in index order
OldestFirst(store, readOk) == IF readOk THEN getAllFromIndex(store) ELSE <<>>

\* getAllProjects: a failed read is logged and answered with []
getAllProjects(store, readOk) ==
    IF readOk THEN Reverse(getAllFromIndex(store)) ELSE <<>>

\* the ProjectHistory record saveToHistory builds from its closure
ProjectOf(c, shots, projectId, at) ==
    [id |-> projectId, timestamp |-> at, sourceImage |-> c.sourceImage,
     product |-> c.product, subjectType |-> c.subjectType, generatedShots |-> shots]

\* saveToHistory: const projectId = pid || Date.now().toString()
SaveId(pid, at) == IF pid = NoProject THEN at ELSE pid

\* history of the store: the snapshot last put under each id
PutRecorded(hist, project, putOk) ==
    IF putOk
    THEN [i \in (DOMAIN hist) \cup {project.id} |->
            IF i = project.id THEN project ELSE hist[i]]
    ELSE hist

-----------------------------------------------------------------------------
(* Task-map updates *)

\* handleGenerate: the loading entry of one style
InitialShot(type, st, at) ==
    [id |-> [shotType |-> type, at |-> at], shotType |-> type, imageUrl |-> EmptyUrl,
     isLoading |-> TRUE, timestamp |-> at, subjectType |-> st, error |-> Undefined,
     customPrompt |-> Undefined]

\* faulty variant: loading entries for the first chunk only
FirstChunkOnly(targetShots, st, at) ==
    [s \in Range(SubSeq(targetShots, 1, 1)) |-> InitialShot(s, st, at)]

\* handleGenerate: initialShots, one entry per style of the queue
InitialShots(targetShots, st, at) ==
    [s \in Range(targetShots) |-> InitialShot(s, st, at)]

\* faulty variant: a settlement that overwrites the whole map with its own entry
OverwriteMap(shots, type, url) ==
    [s \in {type} |-> [Entry(shots, type) EXCEPT !.imageUrl = url, !.isLoading = FALSE]]

\* faulty variant: a success that is not published when the call returns
SuccessDeferred(shots, type, url) == shots

\* processQueue, success: { ...prev, [type]: { ...prev[type], imageUrl, isLoading: false } }
ShotSucceeded(shots, type, url) ==
    WithShot(shots, type, [Entry(shots, type) EXCEPT !.imageUrl = url, !.isLoading = FALSE])

\* faulty variant: a failure that is recorded on every task of the map
FailureOnAll(shots, type, reason) ==
    [s \in (DOMAIN shots) \cup {type} |->
        [Entry(shots, s) EXCEPT !.isLoading = FALSE, !.error = reason]]

\* faulty variant: a failure that is not recorded on the task
FailureIgnored(shots, type, reason) == shots

\* faulty variant: a failure that discards the output the task had
FailureDropsOutput(shots, type, reason) ==
    WithShot(shots, type, [Entry(shots, type) EXCEPT !.imageUrl = EmptyUrl,
                                                     !.isLoading = FALSE, !.error = reason])

\* processQueue / handleEditShot, failure: { ...prev[type], isLoading: false, error }
ShotFailed(shots, type, reason) ==
    WithShot(shots, type, [Entry(shots, type) EXCEPT !.isLoading = FALSE, !.error = reason])

\* handleEditShot: the loading state of the edited entry
ShotEditing(shots, type) ==
    WithShot(shots, type, [Entry(shots, type) EXCEPT !.isLoading = TRUE, !.error = Undefined])

\* handleEditShot: updatedShot, built from the closure's currentShot
UpdatedShot(currentShot, url, at, customPrompt) ==
    [currentShot EXCEPT !.imageUrl = url, !.isLoading = FALSE, !.timestamp = at,
                        !.customPrompt = customPrompt]

\* faulty variant: the snapshot of an edit holds the edited entry alone
OnlyEdited(prev, type, updatedShot) == [s \in {type} |-> updatedShot]

\* handleEditShot: the map handed to saveToHistory, merged against the latest state
EditedShots(prev, type, updatedShot) == WithShot(prev, type, updatedShot)

\* ShotCard onRegenerate: generatedShots[type]?.customPrompt || ''
CardPrompt(shots, type) ==
    IF Entry(shots, type).customPrompt = Undefined THEN ""
    ELSE Entry(shots, type).customPrompt

-----------------------------------------------------------------------------
(* Closure records *)

\* (a run's closure record also keeps the pauses it has made between chunks)
\* one generateShot invocation of the chunk: its loop variable, the backend calls
\* and the waits it has made, and once it has settled the error it raised
LaunchedTask ==
    [pc |-> "call", attempt |-> 0, calls |-> 1, delays |-> <<>>, error |-> NoError]

\* faulty variant: the queue is dropped after the first chunk
NoRest(queue) == <<>>

\* faulty variant: the chunk is taken from the end of the queue
FromTheEnd(queue) == SubSeq(queue, Len(queue) - Min(CONCURRENCY, Len(queue)) + 1, Len(queue))

\* queue.splice(0, CONCURRENCY) and the calls launched for the chunk
ChunkOf(queue) == SubSeq(queue, 1, Min(CONCURRENCY, Len(queue)))
RestOf(queue) == SubSeq(queue, Min(CONCURRENCY, Len(queue)) + 1, Len(queue))
LaunchedTasks(batch) == [s \in Range(batch) |-> LaunchedTask]

NoTasks == [s \in {} |-> LaunchedTask]

\* faulty variant: a chunk with a failed task is never taken for settled
AllResolved(task) == \A s \in DOMAIN task : task[s].pc = "resolved"

Settled(task) == \A s \in DOMAIN task : task[s].pc \in {"resolved", "rejected"}

UnusedRun ==
    [pc |-> "unused", sourceImage |-> NoImage, subjectType |-> "PRODUCT",
     product |-> DefaultProduct, aspectRatio |-> "3:4", activeProjectId |-> NoProject,
     queue |-> <<>>, task |-> NoTasks, pauses |-> <<>>, saves |-> 0,
     superseded |-> FALSE]

UnusedEdit ==
    [pc |-> "unused", type |-> Undefined, customPrompt |-> Undefined,
     currentShot |-> UndefShot, currentProjectId |-> NoProject,
     sourceImage |-> NoImage, subjectType |-> "PRODUCT", product |-> DefaultProduct,
     aspectRatio |-> "3:4", saves |-> 0]

UnusedAnalysis == [pc |-> "unused", image |-> NoImage]

\* a handler that has returned keeps nothing but what it did
FinishedRun(run, saved) ==
    [UnusedRun EXCEPT !.pc = "done", !.saves = IF saved THEN 1 ELSE 0,
                      !.task = [s \in DOMAIN run.task |->
                                  [LaunchedTask EXCEPT !.pc = run.task[s].pc]]]
FinishedEdit(pc, saved) ==
    [UnusedEdit EXCEPT !.pc = pc, !.saves = IF saved THEN 1 ELSE 0]

\* what a generateShot call of the run sends for style `type`: the arguments are
\* the variables of the render handleGenerate was created in
GenRequest(run, type) ==
    [sourceImage |-> run.sourceImage,
     shotDef |-> [type |-> type, subjectType |-> run.subjectType],
     productName |-> run.product.productName,
     productDescription |-> run.product.productDescription,
     aspectRatio |-> mapToGeminiAspectRatio(run.aspectRatio)]

\* what the editShot call of an edit sends
EditRequest(ed) ==
    [shotDef |-> [type |-> ed.type, subjectType |-> ed.subjectType],
     productName |-> ed.product.productName,
     productDescription |-> ed.product.productDescription,
     editPrompt |-> ed.customPrompt,
     aspectRatio |-> mapToGeminiAspectRatio(ed.aspectRatio)]

NoScript == [style |-> 0, rateLimits |-> 0, final |-> "image"]

LiveRun(r) == runs[r].pc \in {"chunk", "pause"}
LiveEdit(e) == edits[e].pc = "call"

\* the next unused slot of a closure table (0 when there is none)
NextSlot(table) ==
    IF \E i \in DOMAIN table : table[i].pc = "unused"
    THEN CHOOSE i \in DOMAIN table :
            table[i].pc = "unused" /\ \A j \in DOMAIN table : j < i => table[j].pc # "unused"
    ELSE 0

\* history: a replaced batch marks the runs launched for the batch it replaces
Supersede(rs) ==
    [r \in DOMAIN rs |->
        IF rs[r].pc \in {"chunk", "pause"} THEN [rs[r] EXCEPT !.superseded = TRUE]
        ELSE rs[r]]

-----------------------------------------------------------------------------
(* Initial states *)

\* A project an earlier session left in the store: a settled batch of the product
\* catalog for image img0, generated at time 1 and saved at time 2.
EarlierProject(n) ==
    [id |-> 1, timestamp |-> 2, sourceImage |-> "img0", product |-> AnalysisOf("img0"),
     subjectType |-> "PRODUCT",
     generatedShots |->
        [s \in Range(SubSeq(PRODUCT_STYLES, 1, n)) |->
            [InitialShot(s, "PRODUCT", 1) EXCEPT !.imageUrl = GenUrl(0),
                                                 !.isLoading = FALSE]]]

InitApp ==
    /\ sourceImage = NoImage
    /\ isGenerating = FALSE
    /\ isDetecting = FALSE
    /\ product = DefaultProduct
    /\ subjectType = "PRODUCT"
    /\ aspectRatio = "3:4"
    /\ generatedShots = EmptyShots
    /\ currentProjectId = NoProject
    /\ now = 3
    /\ clicks = 0

Init ==
    /\ InitApp
    /\ runs = [r \in 1..MaxUserActions |-> UnusedRun]
    /\ edits = [e \in 1..MaxUserActions |-> UnusedEdit]
    /\ analyses = [a \in 1..MaxUserActions |-> UnusedAnalysis]
    /\ catalogLen = NumStyles
    /\ script = NoScript
    /\ \E earlier \in BOOLEAN :
         /\ projects = IF earlier THEN {EarlierProject(NumStyles)} ELSE {}
         /\ lastPut = IF earlier THEN [i \in {1} |-> EarlierProject(NumStyles)]
                      ELSE [i \in {} |-> EarlierProject(NumStyles)]

\* a user action, within the bound
Click == clicks' = clicks + 1

-----------------------------------------------------------------------------
(* handleImageSelect and analyzeProduct *)

HandleImageSelect ==
    LET a == NextSlot(analyses)
        base64 == ImageFiles[a]
    IN
    /\ sourceImage = NoImage            \* UploadArea is rendered only without an image
    /\ a # 0
    /\ sourceImage' = base64
    /\ generatedShots' = EmptyShots
    /\ currentProjectId' = NoProject
    /\ subjectType' = "PRODUCT"
    /\ isDetecting' = TRUE
    /\ analyses' = [analyses EXCEPT ![a] = [pc |-> "call", image |-> base64]]
    /\ runs' = Supersede(runs)
    /\ Click
    /\ UNCHANGED <<isGenerating, product, aspectRatio, edits, projects, now,
                   environment, lastPut>>

\* how an analyzeProduct call ends: a reply that parses, a reply that does not,
\* or a failed backend call
AnalysisOutcomes == {"parsed", "unparsable", "failed"}

\* the result of both catch blocks of analyzeProduct
DefaultAnalysis ==
    [productName |-> "Subject", description |-> "A detailed shot of the subject.",
     category |-> "general", confidence |-> 0]

\* faulty variant: a failure yields an empty descriptor
EmptyOnFailure(img, outcome) ==
    IF outcome = "parsed"
    THEN [productName |-> img, description |-> img, category |-> img, confidence |-> 8]
    ELSE [productName |-> "", description |-> "", category |-> "", confidence |-> 0]

\* analyzeProduct (confidence in tenths): the subject a parsed reply describes
analyzeProduct(img, outcome) ==
    IF outcome = "parsed"
    THEN [productName |-> img, description |-> img, category |-> img, confidence |-> 8]
    ELSE DefaultAnalysis

\* setProductName / setProductDescription / setProductCategory of an analysis
Applied(analysis) ==
    [productName |-> analysis.productName, productDescription |-> analysis.description,
     productCategory |-> analysis.category]

\* analyzeProduct returns: what it parsed, or its fallback descriptor
AnalysisReturns(a, parsed) ==
    /\ analyses[a].pc = "call"
    /\ \E outcome \in (IF parsed THEN {"parsed"} ELSE AnalysisOutcomes \ {"parsed"}) :
          product' = Applied(analyzeProduct(analyses[a].image, outcome))
    /\ isDetecting' = FALSE
    /\ analyses' = [analyses EXCEPT ![a] = [pc |-> "done", image |-> NoImage]]
    /\ UNCHANGED <<sourceImage, isGenerating, subjectType, aspectRatio, generatedShots,
                   currentProjectId, runs, edits, projects, now, environment, clicks,
                   lastPut>>

-----------------------------------------------------------------------------
(* handleGenerate, processQueue and generateShot *)

\* a button that calls handleGenerate is shown and enabled: Generate Campaign is
\* disabled while detecting, Regenerate All is hidden while generating
CanGenerate ==
    /\ sourceImage # NoImage
    /\ IF DOMAIN generatedShots = {} THEN ~isDetecting ELSE ~isGenerating

HandleGenerate ==
    LET r == NextSlot(runs)
        activeProjectId == IF currentProjectId = NoProject THEN now ELSE currentProjectId
        targetShots == activeStyles(subjectType)
    IN
    /\ CanGenerate
    /\ r # 0
    /\ isGenerating' = TRUE
    /\ currentProjectId' = activeProjectId
    /\ generatedShots' = InitialShots(targetShots, subjectType, now)
    /\ runs' = [Supersede(runs) EXCEPT ![r] =
                  [pc |-> "chunk", sourceImage |-> sourceImage, subjectType |-> subjectType,
                   product |-> product, aspectRatio |-> aspectRatio,
                   activeProjectId |-> activeProjectId,
                   queue |-> RestOf(targetShots),
                   task |-> LaunchedTasks(ChunkOf(targetShots)), pauses |-> <<>>,
                   saves |-> 0,
                   superseded |-> FALSE]]
    /\ now' = now + 1
    /\ Click
    /\ UNCHANGED <<sourceImage, isDetecting, product, subjectType, aspectRatio, edits,
                   analyses, projects, environment, lastPut>>

\* One task of the chunk settles with `shots` as the updated task map; when it is
\* the chunk's last, Promise.all resolves: the pause before the next chunk, or the
\* end of the batch (save, then setIsGenerating(false)).
Settle(r, type, outcome, error, shots, putOk) ==
    LET run == runs[r]
        task == [run.task EXCEPT ![type] = [@ EXCEPT !.pc = outcome, !.error = error]]
        projectId == SaveId(run.activeProjectId, now)
        project == ProjectOf(run, shots, projectId, now)
        saved == run.sourceImage # NoImage
    IN
    /\ generatedShots' = shots
    /\ IF ~Settled(task)
       THEN /\ runs' = [runs EXCEPT ![r].task = task]
            /\ UNCHANGED <<isGenerating, currentProjectId, projects, now, lastPut>>
       ELSE IF Len(run.queue) > 0
       THEN /\ runs' = [runs EXCEPT ![r].task = task, ![r].pc = "pause",
                                    ![r].pauses = Append(@, InterRoundPause)]
            /\ UNCHANGED <<isGenerating, currentProjectId, projects, now, lastPut>>
       ELSE /\ runs' = [runs EXCEPT ![r] = FinishedRun([run EXCEPT !.task = task], saved)]
            /\ projects' = IF saved THEN saveProject(projects, project, putOk) ELSE projects
            /\ lastPut' = IF saved THEN PutRecorded(lastPut, project, putOk) ELSE lastPut
            /\ currentProjectId' =
                 IF saved /\ run.activeProjectId = NoProject THEN projectId
                 ELSE currentProjectId
            /\ isGenerating' = FALSE
            /\ now' = now + 1
    /\ UNCHANGED <<sourceImage, isDetecting, product, subjectType, aspectRatio, edits,
                   analyses, environment, clicks>>

\* the backend answers one generateShot call
GenReply(r, type, reply, putOk) ==
    /\ runs[r].pc = "chunk"
    /\ type \in DOMAIN runs[r].task
    /\ runs[r].task[type].pc = "call"
    /\ LET t == runs[r].task[type]
           error == Raised(reply)
       IN
       IF reply.kind = "image"
       THEN Settle(r, type, "resolved", NoError,
                   ShotSucceeded(generatedShots, type, GenUrl(r)), putOk)
       ELSE IF ShouldRetry(error, t.attempt)
       THEN /\ runs' = [runs EXCEPT ![r].task[type] =
                          [t EXCEPT !.pc = "backoff",
                                    !.delays = Append(@, BackoffDelay(t.attempt))]]
            /\ UNCHANGED <<appState, edits, analyses, projects, now, environment,
                           clicks, lastPut>>
       ELSE Settle(r, type, "rejected", error,
                   ShotFailed(generatedShots, type, "Failed to generate"), putOk)

\* await wait(delay); attempt++; continue
BackoffElapsed(r, type, putOk) ==
    /\ runs[r].pc = "chunk"
    /\ type \in DOMAIN runs[r].task
    /\ runs[r].task[type].pc = "backoff"
    /\ LET t == runs[r].task[type] IN
       IF t.attempt + 1 <= MAX_RETRIES
       THEN /\ runs' = [runs EXCEPT ![r].task[type] =
                          [t EXCEPT !.pc = "call", !.attempt = @ + 1, !.calls = @ + 1]]
            /\ UNCHANGED <<appState, edits, analyses, projects, now, environment,
                           clicks, lastPut>>
       ELSE Settle(r, type, "rejected", ExhaustedError,
                   ShotFailed(generatedShots, type, "Failed to generate"), putOk)

\* faulty variant: the next chunk is launched with the values of the latest render
PauseRereads(r) ==
    /\ runs[r].pc = "pause"
    /\ runs' = [runs EXCEPT ![r].pc = "chunk",
                            ![r].task = LaunchedTasks(ChunkOf(runs[r].queue)),
                            ![r].queue = RestOf(runs[r].queue),
                            ![r].product = product,
                            ![r].aspectRatio = aspectRatio]
    /\ UNCHANGED <<appState, edits, analyses, projects, now, environment, clicks,
                   lastPut>>

\* the 1000 ms pause between chunks is over: processQueue takes the next chunk
PauseElapsed(r) ==
    /\ runs[r].pc = "pause"
    /\ runs' = [runs EXCEPT ![r].pc = "chunk",
                            ![r].task = LaunchedTasks(ChunkOf(runs[r].queue)),
                            ![r].queue = RestOf(runs[r].queue)]
    /\ UNCHANGED <<appState, edits, analyses, projects, now, environment, clicks,
                   lastPut>>

-----------------------------------------------------------------------------
(* handleEditShot and editShot *)

\* faulty variant: handleEditShot returns early only when the style has no task
TaskExists(shots, type) == type \in DOMAIN shots

\* handleEditShot goes on past: if (!currentShot || !currentShot.imageUrl) return
CanEdit(shots, type) == type \in DOMAIN shots /\ HasImage(shots[type])

\* ShotCard renders the Retry button: isError = !!data?.error
RetryShown(shots, type) == type \in DOMAIN shots /\ shots[type].error # Undefined

HandleEditShot(type, customPrompt) ==
    LET e == NextSlot(edits)
        currentShot == Entry(generatedShots, type)
    IN
    /\ sourceImage # NoImage                        \* the cards exist only in the workspace
    /\ type \in Range(activeStyles(subjectType))    \* one card per active style
    /\ CanEdit(generatedShots, type)
    /\ e # 0
    /\ generatedShots' = ShotEditing(generatedShots, type)
    /\ edits' = [edits EXCEPT ![e] =
                   [pc |-> "call", type |-> type, customPrompt |-> customPrompt,
                    currentShot |-> currentShot, currentProjectId |-> currentProjectId,
                    sourceImage |-> sourceImage, subjectType |-> subjectType,
                    product |-> product, aspectRatio |-> aspectRatio, saves |-> 0]]
    /\ Click
    /\ UNCHANGED <<sourceImage, isGenerating, isDetecting, product, subjectType,
                   aspectRatio, currentProjectId, runs, analyses, projects, now,
                   environment, lastPut>>

\* the backend answers the single editShot call
EditReply(e, reply, putOk) ==
    LET ed == edits[e]
        updatedShot == UpdatedShot(ed.currentShot, EditUrl(e), now, ed.customPrompt)
        next == EditedShots(generatedShots, ed.type, updatedShot)
        projectId == SaveId(ed.currentProjectId, now)
        project == ProjectOf(ed, next, projectId, now)
        saved == ed.sourceImage # NoImage
    IN
    /\ ed.pc = "call"
    /\ IF reply.kind = "image"
       THEN /\ generatedShots' = next
            /\ projects' = IF saved THEN saveProject(projects, project, putOk) ELSE projects
            /\ lastPut' = IF saved THEN PutRecorded(lastPut, project, putOk) ELSE lastPut
            /\ currentProjectId' =
                 IF saved /\ ed.currentProjectId = NoProject THEN projectId
                 ELSE currentProjectId
            /\ edits' = [edits EXCEPT ![e] = FinishedEdit("done", saved)]
            /\ now' = now + 1
       ELSE /\ generatedShots' = ShotFailed(generatedShots, ed.type, "Edit failed")
            /\ edits' = [edits EXCEPT ![e] = FinishedEdit("failed", FALSE)]
            /\ UNCHANGED <<projects, lastPut, currentProjectId, now>>
    /\ UNCHANGED <<sourceImage, isGenerating, isDetecting, product, subjectType,
                   aspectRatio, runs, analyses, environment, clicks>>

-----------------------------------------------------------------------------
(* Handlers that replace the batch, and the remaining controls *)

HandleReset ==
    /\ sourceImage # NoImage        \* the New button is rendered with an image ...
    /\ ~isGenerating                \* ... and disabled while generating
    /\ sourceImage' = NoImage
    /\ generatedShots' = EmptyShots
    /\ isGenerating' = FALSE
    /\ product' = DefaultProduct
    /\ subjectType' = "PRODUCT"
    /\ currentProjectId' = NoProject
    /\ runs' = Supersede(runs)
    /\ Click
    /\ UNCHANGED <<isDetecting, aspectRatio, edits, analyses, projects, now,
                   environment, lastPut>>

HandleLoadProject(project) ==
    /\ project \in projects
    /\ sourceImage' = project.sourceImage
    /\ product' = project.product
    /\ subjectType' = project.subjectType
    /\ generatedShots' = project.generatedShots
    /\ currentProjectId' = project.id
    /\ isDetecting' = FALSE
    /\ isGenerating' = FALSE
    /\ runs' = Supersede(runs)
    /\ Click
    /\ UNCHANGED <<aspectRatio, edits, analyses, projects, now, environment, lastPut>>

\* SubjectTypeSelector onSelect
SelectSubjectType(type) ==
    /\ sourceImage # NoImage
    /\ subjectType' = type
    /\ generatedShots' = IF type # subjectType THEN EmptyShots ELSE generatedShots
    /\ runs' = IF type # subjectType THEN Supersede(runs) ELSE runs
    /\ Click
    /\ UNCHANGED <<sourceImage, isGenerating, isDetecting, product, aspectRatio,
                   currentProjectId, edits, analyses, projects, now, environment,
                   lastPut>>

SetAspectRatio(ratio) ==
    /\ sourceImage # NoImage
    /\ aspectRatio' = ratio
    /\ Click
    /\ UNCHANGED <<sourceImage, isGenerating, isDetecting, product, subjectType,
                   generatedShots, currentProjectId, runs, edits, analyses, projects,
                   now, environment, lastPut>>

\* deleteProject: a failed delete is logged and swallowed
DeleteProject(id, deleteOk) ==
    /\ \E p \in projects : p.id = id
    /\ projects' = IF deleteOk THEN StoreDelete(projects, id) ELSE projects
    /\ lastPut' = IF deleteOk THEN [i \in (DOMAIN lastPut) \ {id} |-> lastPut[i]]
                  ELSE lastPut
    /\ Click
    /\ UNCHANGED <<appState, runs, edits, analyses, now, environment>>

-----------------------------------------------------------------------------
(* The orchestrator under any user and any backend *)

UserAction ==
    \/ HandleImageSelect
    \/ HandleGenerate
    \/ \E type \in DOMAIN generatedShots, customPrompt \in EditPrompts :
          HandleEditShot(type, customPrompt)
    \/ \E type \in DOMAIN generatedShots :
          HandleEditShot(type, CardPrompt(generatedShots, type))
    \/ HandleReset
    \/ \E project \in projects : HandleLoadProject(project)
    \/ \E type \in SubjectTypes : SelectSubjectType(type)
    \/ \E ratio \in RatioButtons : SetAspectRatio(ratio)
    \/ \E project \in projects, deleteOk \in BOOLEAN : DeleteProject(project.id, deleteOk)

\* the outcomes of the put a step makes: none to choose when it makes no put
RunPutOutcomes(r) == IF runs[r].queue = <<>> THEN BOOLEAN ELSE {TRUE}
EditPutOutcomes(reply) == IF reply.kind = "image" THEN BOOLEAN ELSE {TRUE}

Completion ==
    \/ \E a \in DOMAIN analyses, parsed \in BOOLEAN : AnalysisReturns(a, parsed)
    \/ \E r \in DOMAIN runs : \E type \in DOMAIN runs[r].task :
          \E reply \in Replies, putOk \in RunPutOutcomes(r) : GenReply(r, type, reply, putOk)
    \/ \E r \in DOMAIN runs : \E type \in DOMAIN runs[r].task :
          \E putOk \in RunPutOutcomes(r) : BackoffElapsed(r, type, putOk)
    \/ \E r \in DOMAIN runs : PauseElapsed(r)
    \/ \E e \in DOMAIN edits, reply \in Replies :
          \E putOk \in EditPutOutcomes(reply) : EditReply(e, reply, putOk)

Next ==
    \/ clicks < MaxUserActions /\ UserAction
    \/ Completion

Spec == Init /\ [][Next]_vars

-----------------------------------------------------------------------------
(* One undisturbed batch after the other, over the whole catalog, against a    *)
(* backend whose replies are scripted: every call succeeds, except the calls   *)
(* for the script's style, which are rate-limited script.rateLimits times and  *)
(* then answered with script.final.                                            *)

RateLimited == [status |-> 429, code |-> 0, message |-> <<"Too", "Many", "Requests">>]
ServerError == [status |-> 500, code |-> 500, message |-> <<"Internal", "error">>]

Scripts ==
    {NoScript}
    \cup {[style |-> k, rateLimits |-> n, final |-> f] :
            k \in 1..CatalogSize, n \in 0..MAX_RETRIES,
            f \in {"image", "error", "noImage"}}
    \cup {[style |-> k, rateLimits |-> MAX_RETRIES + 1, final |-> "error"] :
            k \in 1..CatalogSize}

\* position of a style in its catalog
IndexOf(type) ==
    CHOOSE i \in 1..CatalogSize : PRODUCT_STYLES[i] = type \/ HUMAN_STYLES[i] = type

Scripted(r, type) ==
    IF IndexOf(type) # script.style THEN [kind |-> "image", error |-> NoError]
    ELSE IF runs[r].task[type].attempt < script.rateLimits
    THEN [kind |-> "error", error |-> RateLimited]
    ELSE IF script.final = "error" THEN [kind |-> "error", error |-> ServerError]
    ELSE [kind |-> script.final, error |-> NoError]

Idle == \A r \in DOMAIN runs : ~LiveRun(r)

InitBatch ==
    /\ InitApp
    /\ runs = [r \in 1..MaxBatchActions |-> UnusedRun]
    /\ edits = [e \in {} |-> UnusedEdit]
    /\ analyses = [a \in {1} |-> UnusedAnalysis]
    /\ catalogLen = CatalogSize
    /\ script \in Scripts
    /\ projects = {}
    /\ lastPut = [i \in {} |-> EarlierProject(CatalogSize)]

NextBatch ==
    \/ clicks < MaxBatchActions /\ HandleImageSelect
    \/ clicks < MaxBatchActions /\ Idle /\ HandleGenerate
    \/ clicks < MaxBatchActions /\ Idle /\ \E type \in SubjectTypes : SelectSubjectType(type)
    \/ \E a \in DOMAIN analyses, parsed \in BOOLEAN : AnalysisReturns(a, parsed)
    \/ \E r \in DOMAIN runs : \E type \in DOMAIN runs[r].task :
          GenReply(r, type, Scripted(r, type), TRUE)
    \/ \E r \in DOMAIN runs : \E type \in DOMAIN runs[r].task :
          BackoffElapsed(r, type, TRUE)
    \/ \E r \in DOMAIN runs : PauseElapsed(r)

SpecBatch == InitBatch /\ [][NextBatch]_vars

\* Every backend call returns and every timer fires: the scripted backend always
\* answers, and the backoff and the pause are setTimeout timers.
BackendAnswers ==
    \E r \in DOMAIN runs : \E type \in DOMAIN runs[r].task :
        GenReply(r, type, Scripted(r, type), TRUE)
BackoffTimerFires ==
    \E r \in DOMAIN runs : \E type \in DOMAIN runs[r].task : BackoffElapsed(r, type, TRUE)
PauseTimerFires == \E r \in DOMAIN runs : PauseElapsed(r)

SpecBatchFair ==
    /\ SpecBatch
    /\ WF_vars(BackendAnswers)
    /\ WF_vars(BackoffTimerFires)
    /\ WF_vars(PauseTimerFires)

-----------------------------------------------------------------------------
(* A longer session over the history: the user loads, edits, resets, selects   *)
(* and generates; every backend call returns an image and every put succeeds.  *)

ImageReply == [kind |-> "image", error |-> NoError]

InitSession ==
    /\ InitApp
    /\ runs = [r \in 1..MaxSessionActions |-> UnusedRun]
    /\ edits = [e \in 1..MaxSessionActions |-> UnusedEdit]
    /\ analyses = [a \in 1..MaxSessionActions |-> UnusedAnalysis]
    /\ catalogLen = NumStyles
    /\ script = NoScript
    /\ projects = {EarlierProject(NumStyles)}
    /\ lastPut = [i \in {EarlierProject(NumStyles).id} |-> EarlierProject(NumStyles)]

NextSession ==
    \/ clicks < MaxSessionActions /\ HandleImageSelect
    \/ clicks < MaxSessionActions /\ HandleGenerate
    \/ clicks < MaxSessionActions
          /\ \E type \in DOMAIN generatedShots, customPrompt \in EditPrompts :
                HandleEditShot(type, customPrompt)
    \/ clicks < MaxSessionActions /\ HandleReset
    \/ clicks < MaxSessionActions /\ \E project \in projects : HandleLoadProject(project)
    \/ \E a \in DOMAIN analyses : AnalysisReturns(a, TRUE)
    \/ \E r \in DOMAIN runs : \E type \in DOMAIN runs[r].task :
          GenReply(r, type, ImageReply, TRUE)
    \/ \E r \in DOMAIN runs : PauseElapsed(r)
    \/ \E e \in DOMAIN edits : EditReply(e, ImageReply, TRUE)

SpecSession == InitSession /\ [][NextSession]_vars

-----------------------------------------------------------------------------
(* The aspect-ratio selector: the session starts with any selectable ratio,   *)
(* the user picks any other, loads the stored project, regenerates and edits;  *)
(* every backend call returns an image and every put succeeds.                 *)

InitRatio ==
    /\ sourceImage = NoImage
    /\ isGenerating = FALSE
    /\ isDetecting = FALSE
    /\ product = DefaultProduct
    /\ subjectType = "PRODUCT"
    /\ aspectRatio \in Range(ASPECT_RATIOS)
    /\ generatedShots = EmptyShots
    /\ currentProjectId = NoProject
    /\ now = 3
    /\ clicks = 0
    /\ runs = [r \in 1..MaxRatioActions |-> UnusedRun]
    /\ edits = [e \in 1..MaxRatioActions |-> UnusedEdit]
    /\ analyses = [a \in {1} |-> UnusedAnalysis]
    /\ catalogLen = NumStyles
    /\ script = NoScript
    /\ projects = {EarlierProject(NumStyles)}
    /\ lastPut = [i \in {EarlierProject(NumStyles).id} |-> EarlierProject(NumStyles)]

NextRatio ==
    \/ clicks < MaxRatioActions /\ \E project \in projects : HandleLoadProject(project)
    \/ clicks < MaxRatioActions /\ \E ratio \in Range(ASPECT_RATIOS) : SetAspectRatio(ratio)
    \/ clicks < MaxRatioActions /\ HandleGenerate
    \/ clicks < MaxRatioActions
          /\ \E type \in DOMAIN generatedShots, customPrompt \in EditPrompts :
                HandleEditShot(type, customPrompt)
    \/ \E r \in DOMAIN runs : \E type \in DOMAIN runs[r].task :
          GenReply(r, type, ImageReply, TRUE)
    \/ \E r \in DOMAIN runs : PauseElapsed(r)
    \/ \E e \in DOMAIN edits : EditReply(e, ImageReply, TRUE)

SpecRatio == InitRatio /\ [][NextRatio]_vars

-----------------------------------------------------------------------------
(* Switching the subject mode over the whole catalog: the user selects an      *)
(* image, generates and switches between the product and the human mode at any *)
(* time; every backend call returns an image and every put succeeds.           *)

InitMix ==
    /\ InitApp
    /\ runs = [r \in 1..MaxMixActions |-> UnusedRun]
    /\ edits = [e \in {} |-> UnusedEdit]
    /\ analyses = [a \in {1} |-> UnusedAnalysis]
    /\ catalogLen = CatalogSize
    /\ script = NoScript
    /\ projects = {}
    /\ lastPut = [i \in {} |-> EarlierProject(CatalogSize)]

NextMix ==
    \/ clicks < MaxMixActions /\ HandleImageSelect
    \/ clicks < MaxMixActions /\ HandleGenerate
    \/ clicks < MaxMixActions /\ \E type \in {"PRODUCT", "HUMAN"} : SelectSubjectType(type)
    \/ \E a \in DOMAIN analyses : AnalysisReturns(a, TRUE)
    \/ \E r \in DOMAIN runs : \E type \in DOMAIN runs[r].task :
          GenReply(r, type, ImageReply, TRUE)
    \/ \E r \in DOMAIN runs : PauseElapsed(r)

SpecMix == InitMix /\ [][NextMix]_vars

-----------------------------------------------------------------------------
(* Properties *)

\* the task-map entry of a task that ended Succeeded / Failed
Succeeded(shot) == ~shot.isLoading /\ HasImage(shot) /\ shot.error = Undefined
Failed(shot) == ~shot.isLoading /\ shot.error # Undefined
Terminal(shot) == Succeeded(shot) \/ Failed(shot)

\* in this step the generateShot call of run r for `type` settles
TaskSettles(r, type) ==
    /\ runs[r].pc = "chunk"
    /\ type \in DOMAIN runs[r].task
    /\ runs[r].task[type].pc = "call"
    /\ type \in DOMAIN runs'[r].task
    /\ runs'[r].task[type].pc \in {"resolved", "rejected"}

\* in this step run r, launched for a batch that has since been replaced, takes a step
StaleRunSteps(r) == runs[r].superseded /\ runs'[r] # runs[r]

\* C1: when a generateShot call of a run whose batch has been replaced settles,
\* no entry of the task map is created or changed by it.
C1_StaleResultDiscarded ==
    [][\A r \in DOMAIN runs : StaleRunSteps(r) => generatedShots' = generatedShots]_vars

\* the task of the scripted style, in a run of the scripted backend
ScriptedTask(r, type) ==
    type \in DOMAIN runs[r].task /\ IndexOf(type) = script.style

\* C2: a task whose first three calls are rate-limited and whose fourth call returns
\* an image ends Succeeded after exactly 4 calls, having waited 2000, 4000 and
\* 8000 ms, in that order, between consecutive calls.
C2_ThreeRetriesThenSuccess ==
    [][\A r \in DOMAIN runs : \A type \in DOMAIN runs[r].task :
         (/\ script.rateLimits = 3 /\ script.final = "image"
          /\ ScriptedTask(r, type) /\ TaskSettles(r, type))
         => /\ runs'[r].task[type].pc = "resolved"
            /\ runs[r].task[type].calls = 4
            /\ runs[r].task[type].delays = <<2000, 4000, 8000>>
            /\ Succeeded(generatedShots'[type])]_vars

C2_Witness ==
    \E r \in DOMAIN runs : \E type \in DOMAIN runs[r].task :
        /\ script.rateLimits = 3 /\ script.final = "image" /\ ScriptedTask(r, type)
        /\ runs[r].pc = "pause"
        /\ runs[r].task[type].pc = "resolved"
        /\ runs[r].task[type].calls = 4
        /\ runs[r].task[type].delays = <<2000, 4000, 8000>>
        /\ Succeeded(generatedShots[type])

\* C3: whatever the backend answers, a task makes at most 4 backend calls and
\* waits at most 3 times; the step that answers its 4th call ends it, and when
\* all 4 calls were rate-limited it ends Failed.
C3_AtMostFourCalls ==
    [][\A r \in DOMAIN runs : \A type \in DOMAIN runs[r].task :
         LET t == runs[r].task[type] IN
         /\ t.calls <= 4 /\ Len(t.delays) <= 3
         /\ (t.pc = "call" /\ t.calls = 4 /\ runs'[r] # runs[r])
            => /\ TaskSettles(r, type)
               /\ (script.rateLimits = 4 /\ ScriptedTask(r, type))
                  => /\ runs'[r].task[type].pc = "rejected"
                     /\ Failed(generatedShots'[type])]_vars

C3_Witness ==
    \E r \in DOMAIN runs : \E type \in DOMAIN runs[r].task :
        /\ script.rateLimits = 4 /\ ScriptedTask(r, type)
        /\ runs[r].pc = "pause"
        /\ runs[r].task[type].pc = "rejected"
        /\ runs[r].task[type].calls = 4
        /\ Len(runs[r].task[type].delays) = 3
        /\ Failed(generatedShots[type])

\* C4: a task whose 4 calls were all rate-limited ends with the exhausted-retries
\* reason: generateShot raises the exhausted-retries error.
C4_ExhaustedReason ==
    \A r \in DOMAIN runs : \A type \in DOMAIN runs[r].task :
        (/\ runs[r].pc = "pause"
         /\ runs[r].task[type].pc = "rejected"
         /\ runs[r].task[type].calls = 4
         /\ isRateLimit(runs[r].task[type].error))
        => runs[r].task[type].error = ExhaustedError

\* C5: a call that fails with an error that is no rate limit, at the first call
\* or after earlier rate-limited calls, ends the task Failed in the same step:
\* no wait follows and no further call is made.
C5_OnlyRateLimitRetried ==
    [][\A r \in DOMAIN runs : \A type \in DOMAIN runs[r].task :
         LET t == runs[r].task[type] IN
         (/\ script.final \in {"error", "noImage"} /\ script.rateLimits <= 3
          /\ ScriptedTask(r, type)
          /\ t.pc = "call" /\ t.attempt = script.rateLimits
          /\ runs'[r] # runs[r])
         => /\ TaskSettles(r, type)
            /\ runs'[r].task[type].pc = "rejected"
            /\ t.calls = script.rateLimits + 1
            /\ Len(t.delays) = script.rateLimits
            /\ Failed(generatedShots'[type])]_vars

C5_Witness ==
    \E r \in DOMAIN runs : \E type \in DOMAIN runs[r].task :
        /\ script.final = "error" /\ script.rateLimits = 2 /\ ScriptedTask(r, type)
        /\ runs[r].pc = "pause"
        /\ runs[r].task[type].pc = "rejected"
        /\ ~isRateLimit(runs[r].task[type].error)
        /\ runs[r].task[type].calls = 3
        /\ Len(runs[r].task[type].delays) = 2
        /\ Failed(generatedShots[type])

\* the whole catalog of a subject type
Catalog(st) == Range(IF st = "HUMAN" THEN HUMAN_STYLES ELSE PRODUCT_STYLES)

\* the task-map entry of a task in its initial loading state
Loading(shot) == shot.isLoading /\ ~HasImage(shot) /\ shot.error = Undefined

\* in this step handleGenerate starts run r
GenerateStarts(r) == runs[r].pc = "unused" /\ runs'[r].pc = "chunk"

\* C6: handleGenerate replaces the task map by one loading task per style of the
\* active catalog, 9 of them, none of them a task of the previous map; while the
\* run is live and undisturbed the key set of the task map is the catalog.
C6_OneTaskPerStyle ==
    [][\A r \in DOMAIN runs :
         /\ GenerateStarts(r)
            => /\ DOMAIN generatedShots' = Catalog(subjectType)
               /\ Cardinality(DOMAIN generatedShots') = 9
               /\ \A s \in DOMAIN generatedShots' :
                    /\ Loading(generatedShots'[s])
                    /\ generatedShots'[s].shotType = s
                    /\ \A q \in DOMAIN generatedShots :
                         generatedShots'[s] # generatedShots[q]
         /\ runs'[r].pc \in {"chunk", "pause"}
            => DOMAIN generatedShots' = Catalog(runs'[r].subjectType)]_vars

C6_Witness ==
    \E r, r0 \in DOMAIN runs :
        /\ runs[r0].pc = "done"
        /\ runs[r].pc = "chunk" /\ runs[r].subjectType = "HUMAN"
        /\ DOMAIN generatedShots = Range(HUMAN_STYLES)
        /\ \A s \in DOMAIN generatedShots : Loading(generatedShots[s])

\* one source image, one handleGenerate and no other user action, against the
\* backend that rate-limits the third style twice
EndToEnd ==
    /\ script = [style |-> 3, rateLimits |-> 2, final |-> "image"]
    /\ clicks = 2
    /\ runs[1].pc # "unused"

\* C7: in the end-to-end scenario nothing is written while the run is live, and
\* once it is done the task map has 9 Succeeded tasks, saveProject was called
\* once, and the one stored snapshot has 9 entries keyed by the catalog's styles.
C7_EndToEnd ==
    EndToEnd =>
        /\ LiveRun(1) => projects = {} /\ runs[1].saves = 0
        /\ runs[1].pc = "done"
           => /\ Cardinality(DOMAIN generatedShots) = 9
              /\ \A s \in DOMAIN generatedShots : Succeeded(generatedShots[s])
              /\ runs[1].saves = 1
              /\ Cardinality(projects) = 1
              /\ \A p \in projects :
                   /\ DOMAIN p.generatedShots = Range(PRODUCT_STYLES)
                   /\ Cardinality(DOMAIN p.generatedShots) = 9
                   /\ \A s \in DOMAIN p.generatedShots : Succeeded(p.generatedShots[s])

C7_Witness ==
    /\ EndToEnd
    /\ runs[1].pc = "done"
    /\ \E p \in projects : Cardinality(DOMAIN p.generatedShots) = 9

\* in this step the editShot call of edit e returns an image
EditSucceeds(e) == edits[e].pc = "call" /\ edits'[e].pc = "done"

\* C8: when an edit that started from a settled batch, persisted under the
\* current project id, succeeds and its snapshot is written, the snapshot is
\* stored under the same id and differs from the previous one in the edited
\* style's entry only.
C8_EditChangesOneEntry ==
    [][\A e \in DOMAIN edits :
         LET ed == edits[e]
             pid == ed.currentProjectId
         IN
         (/\ EditSucceeds(e)
          /\ pid \in DOMAIN lastPut
          /\ \A s \in DOMAIN lastPut[pid].generatedShots :
               Terminal(lastPut[pid].generatedShots[s])
          /\ generatedShots = ShotEditing(lastPut[pid].generatedShots, ed.type)
          /\ projects' # projects)
         => /\ pid \in DOMAIN lastPut'
            /\ lastPut'[pid] \in projects'
            /\ lastPut'[pid].id = pid
            /\ LET old == lastPut[pid].generatedShots
                   new == lastPut'[pid].generatedShots
               IN /\ DOMAIN new = DOMAIN old
                  /\ new[ed.type] # old[ed.type]
                  /\ \A s \in DOMAIN old \ {ed.type} : new[s] = old[s]]_vars

C8_Witness ==
    \E e \in DOMAIN edits : \E p \in projects : \E s \in DOMAIN p.generatedShots :
        /\ edits[e].pc = "done"
        /\ p.id = currentProjectId
        /\ p.generatedShots[s].imageUrl = EditUrl(e)
        /\ DOMAIN p.generatedShots # {s}
        /\ \A q \in DOMAIN p.generatedShots \ {s} :
             p.generatedShots[q].imageUrl.by = "generateShot"

\* C9: the store holds at most one snapshot per project id, the one last put
\* under that id; putting a stored batch again, twice or once, leaves one
\* snapshot of that id with the same tasks.
C9_OverwriteByProjectId ==
    /\ \A p, q \in projects : p.id = q.id => p = q
    /\ {p.id : p \in projects} = DOMAIN lastPut
    /\ \A p \in projects : p = lastPut[p.id]
    /\ \A p \in projects :
         LET again == [p EXCEPT !.timestamp = now]
             once == StorePut(projects, again)
             twice == StorePut(once, again)
         IN /\ twice = once
            /\ Cardinality(once) = Cardinality(projects)
            /\ \A q \in once : q.id = p.id => q.generatedShots = p.generatedShots

C9_Witness ==
    /\ Cardinality(projects) = 1
    /\ \E p \in projects :
         /\ p.id = EarlierProject(NumStyles).id
         /\ p.timestamp > EarlierProject(NumStyles).timestamp

\* C10: a task that ends Failed leaves the rest of the run as it was: with styles
\* left in the queue the run pauses and then launches the next one, every style
\* of the catalog is settled, running or queued while the run is live, and the
\* run ends with every task terminal, isGenerating false and the snapshot of the
\* task map written.
C10_FailureDoesNotAbort ==
    [][\A r \in DOMAIN runs :
         /\ \A type \in DOMAIN runs[r].task :
              (TaskSettles(r, type) /\ runs'[r].task[type].pc = "rejected")
              => /\ Failed(generatedShots'[type])
                 /\ IF runs[r].queue # <<>>
                    THEN /\ runs'[r].pc = "pause"
                         /\ runs'[r].queue = runs[r].queue
                         /\ isGenerating'
                    ELSE runs'[r].pc = "done"
         /\ (runs[r].pc = "pause" /\ runs'[r] # runs[r])
            => /\ runs'[r].pc = "chunk"
               /\ DOMAIN runs'[r].task = {Head(runs[r].queue)}
               /\ runs'[r].queue = Tail(runs[r].queue)
         /\ runs'[r].pc \in {"chunk", "pause"}
            => \A s \in Catalog(runs'[r].subjectType) :
                 \/ Terminal(generatedShots'[s])
                 \/ s \in DOMAIN runs'[r].task
                 \/ s \in Range(runs'[r].queue)
         /\ (runs[r].pc = "chunk" /\ runs'[r].pc = "done")
            => /\ ~isGenerating'
               /\ \A s \in Catalog(runs[r].subjectType) : Terminal(generatedShots'[s])
               /\ \E p \in projects' :
                    /\ p.id = runs[r].activeProjectId
                    /\ p.generatedShots = generatedShots']_vars

C10_Witness ==
    \E r \in DOMAIN runs : \E s, s2 \in DOMAIN generatedShots :
        /\ runs[r].pc = "done"
        /\ ~isGenerating
        /\ Failed(generatedShots[s])
        /\ IndexOf(s) < IndexOf(s2)
        /\ Succeeded(generatedShots[s2])
        /\ \E p \in projects : p.generatedShots = generatedShots

\* an edit of style s awaits its backend call
EditInFlight(s) == \E e \in DOMAIN edits : LiveEdit(e) /\ edits[e].type = s

\* in this step run r calls saveToHistory
RunSaves(r) == runs'[r].saves # runs[r].saves

\* C11: a handleGenerate run calls saveToHistory once, in the step that settles
\* its last task with nothing left in the queue: never while it is live. What an
\* undisturbed run writes is the task map with every task terminal (an entry
\* under edit excepted).
C11_OneWriteAfterSettle ==
    [][\A r \in DOMAIN runs :
         LET run == runs[r] IN
         /\ runs'[r].pc \in {"chunk", "pause"} => runs'[r].saves = 0
         /\ runs'[r].pc = "done" => runs'[r].saves = 1
         /\ (RunSaves(r) \/ (LiveRun(r) /\ runs'[r] # run /\ projects' # projects))
            => /\ run.pc = "chunk" /\ runs'[r].pc = "done"
               /\ run.queue = <<>>
               /\ run.saves = 0 /\ runs'[r].saves = 1
               /\ \A s \in DOMAIN run.task : TaskSettles(r, s) \/ Settled([t \in {s} |-> run.task[s]])
               /\ projects' # projects
                  => \E p \in projects' :
                       /\ p.id = run.activeProjectId
                       /\ p.generatedShots = generatedShots'
               /\ ~run.superseded
                  => \A s \in Range(activeStyles(run.subjectType)) :
                       Terminal(generatedShots'[s]) \/ EditInFlight(s)]_vars

C11_Witness ==
    \E r \in DOMAIN runs : \E p \in projects :
        /\ runs[r].pc = "done" /\ runs[r].saves = 1
        /\ p.sourceImage = sourceImage /\ p.sourceImage = ImageFiles[1]
        /\ p.id = currentProjectId
        /\ p.generatedShots = generatedShots
        /\ \A s \in DOMAIN generatedShots : Terminal(generatedShots[s])

\* C12: every stored snapshot holds one task per style of its catalog, none of
\* them loading.
C12_SnapshotsComplete ==
    \A p \in projects :
        /\ DOMAIN p.generatedShots = Range(activeStyles(p.subjectType))
        /\ \A s \in DOMAIN p.generatedShots : ~p.generatedShots[s].isLoading

\* C13: a source image has one project id: every snapshot written for one
\* source image, by a regeneration or by an edit, is stored under the same id.
C13_OneIdPerSourceImage ==
    \A p, q \in projects : p.sourceImage = q.sourceImage => p.id = q.id

\* the session works on a stored project: its image under its id
OnStoredProject ==
    \E p \in projects : p.id = currentProjectId /\ p.sourceImage = sourceImage

\* C14: handleLoadProject(p) adopts p's id, source image, descriptor, subject
\* mode and tasks; while the session works on a stored project, no step changes
\* the current project id unless it changes the source image or loads a project.
C14_LoadAdoptsId ==
    [][/\ \A p \in projects :
            HandleLoadProject(p)
            => /\ currentProjectId' = p.id
               /\ sourceImage' = p.sourceImage
               /\ product' = p.product
               /\ subjectType' = p.subjectType
               /\ generatedShots' = p.generatedShots
       /\ (OnStoredProject /\ sourceImage' = sourceImage)
          => \/ currentProjectId' = currentProjectId
             \/ \E p \in projects : HandleLoadProject(p)]_vars

\* in this step the editShot call of edit e fails
EditFails(e) == edits[e].pc = "call" /\ edits'[e].pc = "failed"

\* the step leaves every entry of the task map but that of `type` as it was
OnlyEntryChanged(type) ==
    /\ DOMAIN generatedShots' = (DOMAIN generatedShots) \cup {type}
    /\ \A s \in (DOMAIN generatedShots) \ {type} : generatedShots'[s] = generatedShots[s]

\* C15: the one reply to an edit's backend call ends the edit: there is no wait
\* and no second call. A failed edit marks the edited task 'Edit failed', leaves
\* every other task, the store and the runs as they were.
C15_EditSingleCall ==
    [][\A e \in DOMAIN edits :
         /\ (edits[e].pc = "call" /\ edits'[e] # edits[e])
            => edits'[e].pc \in {"done", "failed"}
         /\ edits[e].pc \in {"done", "failed"} => edits'[e] = edits[e]
         /\ EditFails(e)
            => /\ OnlyEntryChanged(edits[e].type)
               /\ generatedShots'[edits[e].type].error = "Edit failed"
               /\ ~generatedShots'[edits[e].type].isLoading
               /\ projects' = projects
               /\ runs' = runs]_vars

C15_Witness ==
    \E e \in DOMAIN edits : \E s, s2 \in DOMAIN generatedShots :
        /\ edits[e].pc = "failed"
        /\ generatedShots[s].error = "Edit failed"
        /\ s2 # s
        /\ Succeeded(generatedShots[s2])

\* C16: a settlement of a run's task and the completion of an edit each change
\* the entry of their own style only and put their result there; the entry of a
\* style an undisturbed run has settled never falls back to the loading state.
C16_NoLostUpdates ==
    [][/\ \A r \in DOMAIN runs : \A type \in DOMAIN runs[r].task :
            TaskSettles(r, type)
            => /\ OnlyEntryChanged(type)
               /\ runs'[r].task[type].pc = "resolved"
                  => generatedShots'[type].imageUrl = GenUrl(r)
       /\ \A e \in DOMAIN edits :
            EditSucceeds(e)
            => /\ OnlyEntryChanged(edits[e].type)
               /\ generatedShots'[edits[e].type].imageUrl = EditUrl(e)
       /\ \A r \in DOMAIN runs :
            (runs'[r].pc \in {"chunk", "pause"} /\ ~runs'[r].superseded)
            => \A s \in Range(activeStyles(runs'[r].subjectType)) :
                 \/ s \in DOMAIN runs'[r].task /\ runs'[r].task[s].pc \in {"call", "backoff"}
                 \/ s \in Range(runs'[r].queue)
                 \/ ~Loading(generatedShots'[s])]_vars

C16_Witness ==
    \E r \in DOMAIN runs : \E e \in DOMAIN edits : \E s, s2 \in DOMAIN generatedShots :
        /\ runs[r].pc = "done"
        /\ edits[e].pc = "done"
        /\ s # s2
        /\ generatedShots[s].imageUrl = EditUrl(e)
        /\ generatedShots[s2].imageUrl = GenUrl(r)
        /\ generatedShots[s].id.at = generatedShots[s2].id.at

\* C17: on a task that the main batch left Failed, the Retry action goes through:
\* handleEditShot, invoked for that style, reaches its backend call.
C17_FailedTaskRetry ==
    \A s \in DOMAIN generatedShots :
        (/\ sourceImage # NoImage
         /\ RetryShown(generatedShots, s)
         /\ generatedShots[s].error = "Failed to generate")
        => CanEdit(generatedShots, s)

\* in this step a handler saves and the put fails
RunPutFails(r) ==
    runs[r].pc = "chunk" /\ runs'[r].pc = "done" /\ lastPut' = lastPut
EditPutFails(e) == EditSucceeds(e) /\ lastPut' = lastPut

\* C18: when the put of a save fails, the step still records the task's result
\* in the task map, leaves the store as it was and keeps the project id, and a
\* run ends with isGenerating false; a failed delete changes nothing, and a
\* failed read of the history yields the empty list.
C18_StoreFailureNonFatal ==
    [][/\ \A r \in DOMAIN runs : \A type \in DOMAIN runs[r].task :
            (RunPutFails(r) /\ TaskSettles(r, type))
            => /\ projects' = projects
               /\ ~isGenerating'
               /\ runs'[r].saves = 1
               /\ OnlyEntryChanged(type)
               /\ ~generatedShots'[type].isLoading
               /\ currentProjectId' = currentProjectId
               /\ ~runs[r].superseded => currentProjectId' = runs[r].activeProjectId
       /\ \A e \in DOMAIN edits :
            EditPutFails(e)
            => /\ projects' = projects
               /\ OnlyEntryChanged(edits[e].type)
               /\ generatedShots'[edits[e].type].imageUrl = EditUrl(e)
               /\ edits[e].currentProjectId = NoProject
                  => currentProjectId' # NoProject
               /\ edits[e].currentProjectId # NoProject
                  => currentProjectId' = currentProjectId
       /\ \A p \in projects :
            DeleteProject(p.id, FALSE)
            => projects' = projects /\ generatedShots' = generatedShots
       /\ getAllProjects(projects', FALSE) = <<>>]_vars

C18_Witness ==
    \E r \in DOMAIN runs :
        /\ clicks = 2
        /\ runs[r].pc = "done" /\ runs[r].saves = 1
        /\ ~isGenerating
        /\ currentProjectId # NoProject
        /\ currentProjectId \notin DOMAIN lastPut
        /\ \A p \in projects : p.id # currentProjectId
        /\ DOMAIN generatedShots # {}
        /\ \A s \in DOMAIN generatedShots : Terminal(generatedShots[s])

\* C19: getAllProjects lists every stored snapshot once, newest first by
\* timestamp: the snapshot written last comes first.
C19_NewestFirst ==
    LET list == getAllProjects(projects, TRUE) IN
    /\ Len(list) = Cardinality(projects)
    /\ Range(list) = projects
    /\ \A i, j \in DOMAIN list : i < j => list[i].timestamp >= list[j].timestamp
    /\ \A k \in DOMAIN lastPut : list[1].timestamp >= lastPut[k].timestamp

C19_Witness ==
    LET list == getAllProjects(projects, TRUE) IN
    /\ Len(list) >= 3
    /\ list[1].timestamp > list[2].timestamp
    /\ list[2].timestamp > list[3].timestamp

\* main-batch backend calls launched and not yet settled, backoff waits included
Outstanding ==
    UNION {{<<r, type>> : type \in {s \in DOMAIN runs[r].task :
                                     /\ runs[r].pc = "chunk"
                                     /\ runs[r].task[s].pc \in {"call", "backoff"}}} :
           r \in DOMAIN runs}

\* C20: at every moment the number of outstanding main-batch backend calls
\* is at most the concurrency bound.
C20_OutstandingBounded == Cardinality(Outstanding) <= CONCURRENCY

\* C21: the task map never holds a task of a style outside the catalog of the
\* current subject mode: after a switch of mode no task of the previous mode's
\* catalog comes back, whatever settles later.
C21_NoMixingOfCatalogs == DOMAIN generatedShots \subseteq Catalog(subjectType)

\* C22: mapToGeminiAspectRatio sends each of the 8 selectable ratios into the
\* supported set: 2:3 to 3:4, 3:2 to 4:3, 21:9 to 16:9, a supported ratio to
\* itself, so that mapping twice is mapping once; the ratio a generateShot or
\* editShot call sends is the mapped ratio of its closure, a supported one.
C22_RatioMapped ==
    /\ \A ratio \in Range(ASPECT_RATIOS) :
         /\ mapToGeminiAspectRatio(ratio) \in GeminiRatios
         /\ mapToGeminiAspectRatio(mapToGeminiAspectRatio(ratio))
              = mapToGeminiAspectRatio(ratio)
         /\ ratio \in GeminiRatios => mapToGeminiAspectRatio(ratio) = ratio
    /\ mapToGeminiAspectRatio("2:3") = "3:4"
    /\ mapToGeminiAspectRatio("3:2") = "4:3"
    /\ mapToGeminiAspectRatio("21:9") = "16:9"
    /\ \A r \in DOMAIN runs : \A type \in DOMAIN runs[r].task :
         LiveRun(r) => GenRequest(runs[r], type).aspectRatio \in GeminiRatios
    /\ \A e \in DOMAIN edits :
         LiveEdit(e) => EditRequest(edits[e]).aspectRatio \in GeminiRatios

C22_Witness ==
    \E r \in DOMAIN runs : \E type \in DOMAIN runs[r].task : \E e \in DOMAIN edits :
        /\ runs[r].pc = "chunk" /\ runs[r].task[type].pc = "call"
        /\ runs[r].aspectRatio = "21:9"
        /\ GenRequest(runs[r], type).aspectRatio = "16:9"
        /\ LiveEdit(e)
        /\ edits[e].aspectRatio = "2:3"
        /\ EditRequest(edits[e]).aspectRatio = "3:4"

\* in this step the analyzeProduct call of analysis a returns
AnalysisEnds(a) == analyses[a].pc = "call" /\ analyses'[a].pc = "done"

\* C23: analyzeProduct answers a failed backend call and an unparsable reply
\* with the fixed default descriptor, confidence 0; whenever an analysis
\* returns, the descriptor is set from its result and the detecting flag is
\* cleared, so that with the image still in place handleGenerate can be invoked.
C23_AnalysisNeverRaises ==
    [][/\ \A img \in Range(ImageFiles) : \A outcome \in AnalysisOutcomes \ {"parsed"} :
            /\ analyzeProduct(img, outcome).productName = "Subject"
            /\ analyzeProduct(img, outcome).description = "A detailed shot of the subject."
            /\ analyzeProduct(img, outcome).category = "general"
            /\ analyzeProduct(img, outcome).confidence = 0
       /\ \A a \in DOMAIN analyses :
            AnalysisEnds(a)
            => /\ ~isDetecting'
               /\ product' \in {AnalysisOf(analyses[a].image), FallbackProduct}
               /\ (sourceImage' # NoImage /\ DOMAIN generatedShots' = {})
                  => CanGenerate']_vars

C23_Witness ==
    \E a \in DOMAIN analyses : \E r \in DOMAIN runs :
        /\ analyses[a].pc = "done"
        /\ sourceImage = ImageFiles[a]
        /\ LiveRun(r) /\ ~runs[r].superseded
        /\ runs[r].sourceImage = sourceImage
        /\ runs[r].product = FallbackProduct
        /\ GenRequest(runs[r], Head(PRODUCT_STYLES)).productName = "Subject"

\* in this step run r makes a backend call for `type`: the first call of a
\* launched task, or the call after a backoff
CallMade(r, type) ==
    /\ runs'[r].pc = "chunk"
    /\ type \in DOMAIN runs'[r].task
    /\ runs'[r].task[type].pc = "call"
    /\ \/ runs[r].pc # "chunk"
       \/ type \notin DOMAIN runs[r].task
       \/ runs[r].task[type].pc = "backoff"

\* the catalog the run works through, in order
StylesOf(run) == activeStyles(run.subjectType)

\* C24: a run launches its tasks in catalog order, and when it makes a backend
\* call for a task, first call or retry, every earlier style of the catalog has
\* settled and every later style is still in the queue, with no call made.
C24_CatalogOrderNoInterleaving ==
    [][\A r \in DOMAIN runs : \A type \in DOMAIN runs'[r].task :
         CallMade(r, type)
         => LET k == IndexOf(type) IN
            /\ StylesOf(runs'[r])[k] = type
            /\ runs'[r].queue = SubSeq(StylesOf(runs'[r]), k + 1, catalogLen)
            /\ \A s \in DOMAIN runs'[r].task \ {type} :
                 runs'[r].task[s].pc \in {"resolved", "rejected"}
            /\ runs[r].pc = "pause" => Settled(runs[r].task)
            /\ \A i \in 1..(k - 1) : Terminal(generatedShots'[StylesOf(runs'[r])[i]])
            /\ \A i \in (k + 1)..catalogLen : Loading(generatedShots'[StylesOf(runs'[r])[i]])]_vars

C24_Witness ==
    \E r \in DOMAIN runs : \E type \in DOMAIN runs[r].task :
        /\ script.rateLimits = 2 /\ script.final = "image"
        /\ ScriptedTask(r, type) /\ IndexOf(type) = 5
        /\ runs[r].pc = "chunk"
        /\ runs[r].task[type].pc = "call" /\ runs[r].task[type].calls = 3
        /\ runs[r].queue = SubSeq(StylesOf(runs[r]), 6, 9)
        /\ \A i \in 1..4 : Succeeded(generatedShots[StylesOf(runs[r])[i]])
        /\ \A i \in 6..9 : Loading(generatedShots[StylesOf(runs[r])[i]])

\* in this step run r launches its next chunk
ChunkLaunched(r) == runs[r].pc = "pause" /\ runs'[r].pc = "chunk"

\* C25: the step in which a task's call settles puts the task's terminal status
\* into the task map, while the styles still queued are loading and the run is
\* not over; when the next chunk is launched, the tasks of the chunk before it
\* are terminal in the task map.
C25_SettlementPublishedAtOnce ==
    [][\A r \in DOMAIN runs :
         /\ \A type \in DOMAIN runs[r].task :
              TaskSettles(r, type)
              => /\ OnlyEntryChanged(type)
                 /\ runs'[r].task[type].pc = "resolved" => Succeeded(generatedShots'[type])
                 /\ runs'[r].task[type].pc = "rejected" => Failed(generatedShots'[type])
                 /\ runs[r].queue # <<>>
                    => /\ runs'[r].pc = "pause"
                       /\ isGenerating'
                       /\ runs'[r].saves = 0
                       /\ \A s \in Range(runs[r].queue) : Loading(generatedShots'[s])
         /\ ChunkLaunched(r)
            => /\ \A s \in DOMAIN runs[r].task : Terminal(generatedShots[s])
               /\ \A s \in DOMAIN runs'[r].task : Loading(generatedShots'[s])]_vars

C25_Witness ==
    \E r \in DOMAIN runs :
        /\ runs[r].pc = "pause"
        /\ isGenerating
        /\ Len(runs[r].queue) = 7
        /\ Succeeded(generatedShots[StylesOf(runs[r])[1]])
        /\ Failed(generatedShots[StylesOf(runs[r])[2]])
        /\ \A s \in Range(runs[r].queue) : Loading(generatedShots[s])

\* task `type` of run r waits in a retry backoff delay
InBackoff(r, type) ==
    /\ runs[r].pc = "chunk"
    /\ type \in DOMAIN runs[r].task
    /\ runs[r].task[type].pc = "backoff"

\* in this step another task of run r, one that has not settled, is launched or settles
OtherTaskMoves(r, type) ==
    \E s \in (Range(runs[r].queue) \cup DOMAIN runs[r].task) \ {type} :
        \/ s \notin DOMAIN runs[r].task /\ s \in DOMAIN runs'[r].task
        \/ /\ s \in DOMAIN runs[r].task /\ runs[r].task[s].pc \in {"call", "backoff"}
           /\ s \in DOMAIN runs'[r].task /\ runs'[r].task[s].pc \in {"resolved", "rejected"}

\* C26 as claimed: while a task waits in a backoff delay, another task of the
\* batch that has not yet settled can be launched or can settle.
C26_BackoffDoesNotBlock ==
    \A r \in DOMAIN runs : \A type \in DOMAIN runs[r].task :
        (InBackoff(r, type) /\ runs[r].queue # <<>>)
        => ENABLED (NextBatch /\ OtherTaskMoves(r, type))

\* C26, amended: while a task waits in a backoff delay it is the only task of
\* its chunk; until it has settled the queue of its run stays as it is and no
\* other task of the run is launched or settles; the wait ends in the task's
\* next call, which leaves the task map alone, or in its failure.
C26_BackoffHoldsTheQueue ==
    [][\A r \in DOMAIN runs : \A type \in DOMAIN runs[r].task :
         InBackoff(r, type)
         => /\ DOMAIN runs[r].task = {type}
            /\ ~OtherTaskMoves(r, type)
            /\ (runs'[r].task # runs[r].task \/ runs'[r].pc # runs[r].pc)
               => \/ /\ runs'[r].pc = "chunk"
                     /\ runs'[r].queue = runs[r].queue
                     /\ DOMAIN runs'[r].task = {type}
                     /\ runs'[r].task[type].pc = "call"
                     /\ runs'[r].task[type].calls = runs[r].task[type].calls + 1
                     /\ generatedShots' = generatedShots
                  \/ /\ runs'[r].pc \in {"pause", "done"}
                     /\ runs'[r].task[type].pc = "rejected"]_vars

C26_Witness ==
    \E r \in DOMAIN runs : \E type \in DOMAIN runs[r].task :
        /\ InBackoff(r, type)
        /\ runs[r].task[type].calls = 2
        /\ Len(runs[r].queue) = 6
        /\ \A s \in Range(runs[r].queue) : Loading(generatedShots[s])
        /\ Succeeded(generatedShots[StylesOf(runs[r])[1]])

\* C27: a chunk that settles with styles left in the queue is followed by one
\* pause of 1000 ms, and the pause by the launch of the next chunk; the chunk
\* that settles with the queue empty ends the run in the same step, saved,
\* without a pause: a run over n styles has made n - 1 pauses of 1000 ms.
C27_OnePauseBetweenChunks ==
    [][\A r \in DOMAIN runs :
         LET run == runs[r] IN
         /\ (run.pc = "chunk" /\ runs'[r].pc # "chunk")
            => IF run.queue # <<>>
               THEN /\ runs'[r].pc = "pause"
                    /\ runs'[r].pauses = Append(run.pauses, 1000)
                    /\ runs'[r].queue = run.queue
               ELSE /\ runs'[r].pc = "done"
                    /\ runs'[r].saves = 1
                    /\ Len(run.pauses) = catalogLen - 1
                    /\ \A i \in DOMAIN run.pauses : run.pauses[i] = 1000
         /\ (run.pc = "pause" /\ (runs'[r].pc # "pause" \/ runs'[r].pauses # run.pauses))
            => /\ runs'[r].pc = "chunk"
               /\ runs'[r].pauses = run.pauses
               /\ Len(runs'[r].queue) = Len(run.queue) - 1
         /\ (run.pc = "chunk" /\ runs'[r].pc = "chunk") => runs'[r].pauses = run.pauses
         /\ runs'[r].pc \in {"chunk", "pause"}
            => Len(runs'[r].pauses) + Len(runs'[r].queue)
                 = catalogLen - (IF runs'[r].pc = "chunk" THEN 1 ELSE 0)]_vars

C27_Witness ==
    \E r \in DOMAIN runs :
        /\ runs[r].pc = "chunk"
        /\ runs[r].queue = <<>>
        /\ runs[r].pauses = <<1000, 1000, 1000, 1000, 1000, 1000, 1000, 1000>>
        /\ \E r2 \in DOMAIN runs : runs[r2].pc = "done" /\ runs[r2].saves = 1

\* run r has ended: every task of its catalog is terminal and isGenerating is false
RunEnded(r) ==
    /\ runs[r].pc = "done"
    /\ ~isGenerating
    /\ DOMAIN generatedShots = Catalog(subjectType)
    /\ \A s \in DOMAIN generatedShots : Terminal(generatedShots[s])

\* C28: when every backend call returns and every timer fires, a run that has
\* started ends: every task terminal and isGenerating false. A task never makes
\* more than 4 backend calls, and a run launches each style once, so it never
\* makes more than 36.
C28_Termination ==
    /\ \A r \in 1..MaxBatchActions : LiveRun(r) ~> RunEnded(r)
    /\ [](\A r \in DOMAIN runs :
            LiveRun(r)
            => /\ \A type \in DOMAIN runs[r].task :
                    runs[r].task[type].calls <= MAX_RETRIES + 1
               /\ Len(runs[r].pauses) + 1 <= CatalogSize
               /\ (Len(runs[r].pauses) + 1) * 4 <= 36)

C28_Witness ==
    \E r \in DOMAIN runs : \E s \in DOMAIN generatedShots :
        /\ script.rateLimits = 4
        /\ RunEnded(r)
        /\ IndexOf(s) = script.style
        /\ Failed(generatedShots[s])
        /\ \A q \in DOMAIN generatedShots \ {s} : Succeeded(generatedShots[q])

\* the batch run r created is the current one before and after this step
BatchLives(r) == LiveRun(r) /\ ~runs[r].superseded /\ ~runs'[r].superseded

\* in this step the backend call of edit e returns, with an image or an error
EditEnds(e) == edits[e].pc = "call" /\ edits'[e].pc \in {"done", "failed"}

\* edit e was started on a task of an earlier batch than the one in the task map
StartedBefore(e) ==
    /\ edits[e].type \in DOMAIN generatedShots
    /\ edits[e].currentShot.id # generatedShots[edits[e].type].id

\* C29: while a batch lives, no step changes the id of one of its tasks, no
\* step of its run returns a terminal task to the loading state, and the end
\* of an edit started before the batch was created neither changes a task's id
\* nor turns a loading task terminal.
C29_TaskIdAndStatusStable ==
    [][\A r \in DOMAIN runs :
         BatchLives(r)
         => /\ \A s \in DOMAIN generatedShots :
                 /\ s \in DOMAIN generatedShots'
                 /\ generatedShots'[s].id = generatedShots[s].id
                 /\ (runs'[r] # runs[r] /\ ~generatedShots[s].isLoading)
                    => ~generatedShots'[s].isLoading
            /\ \A e \in DOMAIN edits :
                 (EditEnds(e) /\ StartedBefore(e))
                 => generatedShots'[edits[e].type].isLoading
                      = generatedShots[edits[e].type].isLoading]_vars

\* C30: a run's backend calls are made with the source image, descriptor,
\* subject mode and aspect ratio of the state handleGenerate was invoked in;
\* while the run is live no step changes what its calls send, whatever happens
\* to the state.
C30_RunInputsFixed ==
    [][\A r \in DOMAIN runs : \A type \in Range(StylesOf(runs'[r])) :
         /\ GenerateStarts(r)
            => GenRequest(runs'[r], type)
                 = [sourceImage |-> sourceImage,
                    shotDef |-> [type |-> type, subjectType |-> subjectType],
                    productName |-> product.productName,
                    productDescription |-> product.productDescription,
                    aspectRatio |-> mapToGeminiAspectRatio(aspectRatio)]
         /\ (LiveRun(r) /\ runs'[r].pc \in {"chunk", "pause"})
            => GenRequest(runs'[r], type) = GenRequest(runs[r], type)]_vars

C30_Witness ==
    \E r \in DOMAIN runs : \E type \in DOMAIN runs[r].task :
        /\ runs[r].pc = "chunk" /\ runs[r].queue = <<>>
        /\ runs[r].task[type].pc = "call"
        /\ runs[r].aspectRatio # aspectRatio
        /\ runs[r].product # product
        /\ runs[r].sourceImage = sourceImage
        /\ GenRequest(runs[r], type).aspectRatio # mapToGeminiAspectRatio(aspectRatio)
        /\ GenRequest(runs[r], type).productName # product.productName

\* C31: when an edit succeeds, the edited task is Succeeded whatever it was
\* before: it holds the edit's image, the custom instruction and the time of
\* the edit, it is not loading and it has no error.
C31_EditedTaskSucceeded ==
    [][\A e \in DOMAIN edits :
         EditSucceeds(e)
         => LET shot == generatedShots'[edits[e].type] IN
            /\ shot.imageUrl = EditUrl(e)
            /\ shot.customPrompt = edits[e].customPrompt
            /\ shot.timestamp = now
            /\ ~shot.isLoading
            /\ shot.error = Undefined]_vars

\* completedShotsCount: Object.values(generatedShots).filter(s => !s.isLoading).length
completedShotsCount ==
    Cardinality({s \in DOMAIN generatedShots : ~generatedShots[s].isLoading})

\* the batch is settled: every style of the active catalog has a terminal task
BatchSettled ==
    \A s \in Catalog(subjectType) :
        s \in DOMAIN generatedShots /\ Terminal(generatedShots[s])

\* C32: the progress count never exceeds the catalog's size of 9, and it is 9
\* exactly when the batch is settled.
C32_ProgressCount ==
    /\ completedShotsCount <= 9
    /\ completedShotsCount = 9 <=> BatchSettled

\* C33: when an edit started for a stored project succeeds, the snapshot stored
\* under that project's id still holds a task for every style it held; and when
\* the session has left that project meanwhile, the task map in memory and the
\* snapshots of the other projects are not touched.
C33_SnapshotHoldsOwnProject ==
    [][\A e \in DOMAIN edits :
         LET pid == edits[e].currentProjectId IN
         (EditSucceeds(e) /\ pid \in DOMAIN lastPut /\ pid \in DOMAIN lastPut')
         => /\ DOMAIN lastPut[pid].generatedShots \subseteq DOMAIN lastPut'[pid].generatedShots
            /\ currentProjectId # pid
               => /\ generatedShots' = generatedShots
                  /\ \A p \in projects : p.id # pid => p \in projects']_vars

\* some handleGenerate run has a task that has not settled
RunInProgress == \E r \in DOMAIN runs : LiveRun(r)

\* C34: while a run is in progress isGenerating is true, and no button that
\* calls handleGenerate is available.
C34_GeneratingWhileRunLives == RunInProgress => (isGenerating /\ ~CanGenerate)

\* C35: when an analyzeProduct call returns for an image that has been replaced
\* by another source image (a new upload after a reset, or a loaded project),
\* its late result neither overwrites the descriptor in state nor clears the
\* detecting flag; the result of the analysis of the current image does become
\* the descriptor.
C35_LateAnalysisIgnored ==
    [][\A a \in DOMAIN analyses :
         (AnalysisEnds(a) /\ sourceImage # NoImage)
         => IF analyses[a].image = sourceImage
            THEN product' \in {AnalysisOf(sourceImage), FallbackProduct}
            ELSE product' = product /\ isDetecting' = isDetecting]_vars

\* the entry of the edited style is as handleEditShot left it when edit e started
EntryAwaitsEdit(e) ==
    /\ edits[e].type \in DOMAIN generatedShots
    /\ generatedShots[edits[e].type]
         = [edits[e].currentShot EXCEPT !.isLoading = TRUE, !.error = Undefined]

\* C36: a failed edit changes the entry of the edited style only, and of that
\* entry only the loading flag (cleared) and the error ('Edit failed'): the
\* output the task had before the edit stays in place; the current project id,
\* the store and the record of writes are as before the failure.
C36_FailedEditKeepsOutput ==
    [][\A e \in DOMAIN edits :
         EditFails(e)
         => LET type == edits[e].type IN
            /\ OnlyEntryChanged(type)
            /\ generatedShots'[type]
                 = [Entry(generatedShots, type) EXCEPT !.isLoading = FALSE,
                                                       !.error = "Edit failed"]
            /\ EntryAwaitsEdit(e)
               => /\ HasImage(generatedShots'[type])
                  /\ generatedShots'[type].imageUrl = edits[e].currentShot.imageUrl
                  /\ generatedShots'[type].timestamp = edits[e].currentShot.timestamp
            /\ currentProjectId' = currentProjectId
            /\ projects' = projects
            /\ lastPut' = lastPut
            /\ edits'[e].saves = 0]_vars

\* an edit of a stored project's task has failed: the task shows its earlier
\* output with the error, the stored snapshot still has the task without one
C36_Witness ==
    \E e \in DOMAIN edits : \E s \in DOMAIN generatedShots : \E p \in projects :
        /\ edits[e].pc = "failed"
        /\ generatedShots[s].error = "Edit failed"
        /\ ~generatedShots[s].isLoading
        /\ HasImage(generatedShots[s])
        /\ p.id = currentProjectId
        /\ s \in DOMAIN p.generatedShots
        /\ p.generatedShots[s].error = Undefined
        /\ p.generatedShots[s].imageUrl = generatedShots[s].imageUrl

\* the styles of both catalogs
AnyStyle == Catalog("PRODUCT") \cup Catalog("HUMAN")

\* in this step handleEditShot goes past its early return and starts edit e
EditStarts(e) == edits[e].pc = "unused" /\ edits'[e].pc = "call"

\* the style has no task, or its task has no output image
NoOutput(shots, type) == type \notin DOMAIN shots \/ ~HasImage(shots[type])

\* C37: handleEditShot called for a style that has no task, or whose task has
\* no output image, can change nothing: no step of it is possible. Every edit
\* that starts, with its backend call and its change of the entry, starts on a
\* task that has an output image.
C37_EditWithoutOutputIsNoOp ==
    /\ [](\A type \in AnyStyle : \A customPrompt \in EditPrompts \cup {""} :
            NoOutput(generatedShots, type)
            => ~ENABLED HandleEditShot(type, customPrompt))
    /\ [][\A e \in DOMAIN edits :
            EditStarts(e)
            => /\ ~NoOutput(generatedShots, edits'[e].type)
               /\ edits'[e].currentShot = generatedShots[edits'[e].type]]_vars

\* a batch has left one task failed without output and one task with output,
\* an earlier edit has run, and the user can still click: handleEditShot is
\* possible on the second task and not on the first
C37_Witness ==
    \E s, s2 \in DOMAIN generatedShots : \E e \in DOMAIN edits :
        /\ generatedShots[s].error = "Failed to generate"
        /\ ~generatedShots[s].isLoading
        /\ ~HasImage(generatedShots[s])
        /\ edits[e].pc = "done"
        /\ clicks < MaxUserActions
        /\ ENABLED HandleEditShot(s2, "make it brighter")
        /\ ~ENABLED HandleEditShot(s, "make it brighter")

\* an error whose status, code and message are all unrelated to rate limiting
PlainError(message) == [status |-> 0, code |-> 0, message |-> message]

\* C38: the error raised for a reply without image data is not a rate-limit
\* error: the call that receives such a reply is the task's last one, no delay
\* follows it, the task is rejected with that error in the same step and its
\* entry is Failed without output. Of the backend's errors, those with status
\* 429, with code 429, or with '429' or 'RESOURCE_EXHAUSTED' in the message are
\* rate-limit errors, and no other is.
C38_NoImageIsNotRetried ==
    /\ [](/\ ~isRateLimit(NoImageError)
          /\ ~isRateLimit(ExhaustedError)
          /\ ~isRateLimit(ServerError)
          /\ ~isRateLimit(PlainError(<<"fetch", "failed">>))
          /\ isRateLimit([PlainError(<<"Too", "Many", "Requests">>) EXCEPT !.status = 429])
          /\ isRateLimit([PlainError(<<"quota">>) EXCEPT !.code = 429])
          /\ isRateLimit(PlainError(<<"got", "status:", "429">>))
          /\ isRateLimit(PlainError(<<"RESOURCE_EXHAUSTED">>))
          /\ \A error \in BackendErrors : isRateLimit(error) <=> error # ServerError
          /\ \A attempt \in 0..MAX_RETRIES : ~ShouldRetry(NoImageError, attempt))
    /\ [][\A r \in DOMAIN runs : \A type \in DOMAIN runs[r].task :
            LET t == runs[r].task[type] IN
            (/\ script.final = "noImage"
             /\ ScriptedTask(r, type)
             /\ t.pc = "call" /\ t.attempt = script.rateLimits
             /\ type \in DOMAIN runs'[r].task
             /\ runs'[r].task[type] # t)
            => /\ runs'[r].task[type].pc = "rejected"
               /\ runs'[r].pc # "done"
                  => /\ runs'[r].task[type].error = NoImageError
                     /\ runs'[r].task[type].calls = t.calls
                     /\ runs'[r].task[type].delays = t.delays
               /\ generatedShots'[type].error = "Failed to generate"
               /\ ~generatedShots'[type].isLoading
               /\ ~HasImage(generatedShots'[type])]_vars

\* the first call for a style was answered without image data: the task is
\* rejected with that error after one call and no wait, while its run goes on
C38_Witness ==
    \E r \in DOMAIN runs : \E type \in DOMAIN runs[r].task :
        /\ script.final = "noImage" /\ script.rateLimits = 0 /\ ScriptedTask(r, type)
        /\ runs[r].pc = "pause"
        /\ runs[r].task[type].pc = "rejected"
        /\ runs[r].task[type].error = NoImageError
        /\ runs[r].task[type].calls = 1
        /\ runs[r].task[type].delays = <<>>
        /\ generatedShots[type].error = "Failed to generate"
        /\ ~HasImage(generatedShots[type])

====
